---- MODULE Spec2Model ----
(***************************************************************************)
(* State-machine model of the USB CDC serial layer of                      *)
(* cores/stm32l4/CDC.cpp: the receive and transmit ring buffers of class   *)
(* CDC, the foreground calls write / read / read(buffer,size) executed     *)
(* statement by statement, and the event callback that the device stack    *)
(* runs in interrupt context.  An interrupt handler preempts the           *)
(* foreground between any two of its steps and runs to completion before   *)
(* the foreground continues.                                               *)
(*                                                                         *)
(* The buffer capacities and the packet ceiling are scaled down (powers of *)
(* two are kept, so that the index masks of the source keep their          *)
(* meaning).  The device stack is not part of the source file; it is       *)
(* modelled from its interface contract.                                   *)
(***************************************************************************)
EXTENDS Integers, Sequences, FiniteSets, TLC

\* ---------------------------------------------------------------- bounds
\* log2 of the receive and of the transmit capacity
RxBits == 1
TxBits == 2
\* the FIFO size of the device, in bytes, and the size of one USB packet
USBD_CDC_FIFO_SIZE == 3
USB_PACKET == 2
\* width of "unsigned int" in the model
UINT_BITS == 8
\* the largest size argument of write in the foreground and in an interrupt
\* handler, and of read(buffer, size)
MaxWrite == 5
MaxIsrWrite == 2
MaxRead == 2
\* the most bytes the device stack buffers for the receive side
MaxDevRx == 3
\* the most bytes write may have accepted and not yet seen completed when
\* another write is called
MaxTotal == 9

\* ------------------------------------------------------------- constants
CDC_RX_BUFFER_SIZE == 2 ^ RxBits
CDC_TX_BUFFER_SIZE == 2 ^ TxBits
\* read(buffer, size) clamps with the UART macro, not with the CDC one
UART_RX_BUFFER_SIZE == CDC_RX_BUFFER_SIZE
\* ((USBD_CDC_FIFO_SIZE + 63) & ~63) - 1 : the FIFO size rounded up to whole
\* packets, less one byte
CDC_TX_PACKET_SIZE ==
    (((USBD_CDC_FIFO_SIZE + (USB_PACKET - 1)) \div USB_PACKET) * USB_PACKET) - 1

UINT_MOD == 2 ^ UINT_BITS

USBD_CDC_STATE_INIT == 1
USBD_CDC_STATE_READY == 2
USBD_CDC_EVENT_RECEIVE == 1
USBD_CDC_EVENT_TRANSMIT == 2

\* ------------------------------------------------------------ arithmetic
\* unsigned int arithmetic
UAdd(a, b) == (a + b) % UINT_MOD
USub(a, b) == (a - b) % UINT_MOD
\* x & (size - 1), size a power of two
Mask(x, size) == x % size
\* x & bit, bit a power of two, as a truth value
TestBit(x, bit) == (x \div bit) % 2 = 1
Min(a, b) == IF a < b THEN a ELSE b

\* --------------------------------------------------------------- state
VARIABLES
    \* fields of class CDC
    _blocking, _rx_read, _rx_write, _rx_count,
    _tx_read, _tx_write, _tx_size, _tx_count, _tx_total,
    _transmitCallback, _receiveCallback,
    \* device stack: bytes buffered for receive, the chunk handed to transmit
    dev_rx, dev_busy, dev_len, dev_off,
    \* the two calling contexts of write/read: position and locals
    pc, loc,
    \* the event callback: position and locals
    e_pc, ev,
    \* observation of the run
    h_diff, h_since_tcb,
    \* the contents of the two buffers, each byte named by its number in the
    \* stream it belongs to, with the numbers of the next bytes of the streams
    _rx_data, _tx_data, h_rx, h_tx

cdc == <<_blocking, _rx_read, _rx_write, _rx_count,
         _tx_read, _tx_write, _tx_size, _tx_count, _tx_total,
         _transmitCallback, _receiveCallback>>
rxv == <<_rx_read, _rx_write, _rx_count>>
txv == <<_tx_read, _tx_write, _tx_size, _tx_count, _tx_total>>
cfg == <<_blocking, _transmitCallback, _receiveCallback>>
dev == <<dev_rx, dev_busy, dev_len, dev_off>>
devtx == <<dev_busy, dev_len, dev_off>>
hist == <<h_diff, h_since_tcb>>
rxm == <<_rx_data, h_rx>>
txm == <<_tx_data, h_tx>>
mem == <<rxm, txm>>
vars == <<cdc, dev, pc, loc, e_pc, ev, hist, mem>>

Contexts == {"fg", "isr"}

\* locals of write / read, with the values observed at entry
NoLoc == [op |-> "none", size |-> 0, count |-> 0, tx_count |-> 0,
          tx_write |-> 0, tx_size |-> 0, tx_read |-> 0,
          rx_count |-> 0, ret |-> 0,
          state |-> 0, lineState |-> 0, got |-> <<>>]

\* locals of EventCallback, with what the invocation did so far
NoEv == [events |-> 0, empty |-> FALSE, count |-> 0, rx_size |-> 0,
         tx_size |-> 0, tx_read |-> 0,
         empty0 |-> FALSE, added |-> 0, rcb_calls |-> 0, rcb_arg |-> 0,
         called |-> FALSE, cap |-> 0, room |-> 0]

\* the contents of a buffer when a specification does not follow them
NoData == <<>>

\* the bytes of a stream are numbered modulo twice the capacity of its buffer
Ids(size) == 2 * size

\* a buffer of the given size that no byte was stored in yet
Unwritten(size) == [i \in 0 .. size - 1 |-> -1]

\* memcpy into the buffer: n bytes of the stream, from number first on, stored
\* from index at on (lines 246, 336)
Store(data, size, at, n, first) ==
    IF data = NoData THEN data
    ELSE [i \in 0 .. size - 1 |->
            IF \E k \in 0 .. n - 1 : i = Mask(at + k, size)
            THEN LET k == CHOOSE k \in 0 .. n - 1 : i = Mask(at + k, size)
                 IN  (first + k) % Ids(size)
            ELSE data[i]]

\* the n bytes read from index at on (lines 124, 154); what lies behind the
\* end of the buffer is no byte of the stream
Load(data, size, at, n) ==
    IF data = NoData THEN <<>>
    ELSE [k \in 1 .. n |-> IF at + k - 1 < size THEN data[at + k - 1] ELSE -1]

\* the number of the byte n bytes after byte number id
After(data, size, id, n) ==
    IF data = NoData THEN id ELSE (id + n) % Ids(size)

\* CDC::CDC, but for the contents of the buffers
InitCDC ==
    /\ _blocking = TRUE
    /\ _rx_read = 0 /\ _rx_write = 0 /\ _rx_count = 0
    /\ _tx_read = 0 /\ _tx_write = 0 /\ _tx_size = 0
    /\ _tx_count = 0 /\ _tx_total = 0
    /\ _transmitCallback = FALSE /\ _receiveCallback = FALSE
    /\ dev_rx = 0 /\ dev_busy = FALSE /\ dev_len = 0 /\ dev_off = 0
    /\ pc = [c \in Contexts |-> "idle"]
    /\ loc = [c \in Contexts |-> NoLoc]
    /\ e_pc = "idle" /\ ev = NoEv
    /\ h_diff = 0 /\ h_since_tcb = FALSE
    /\ h_rx = [in |-> 0, out |-> 0] /\ h_tx = [acc |-> 0, sent |-> 0]

\* CDC::CDC; the contents of the buffers are not followed
Init == InitCDC /\ _rx_data = NoData /\ _tx_data = NoData

\* CDC::CDC; the contents of the buffers are followed
InitData ==
    /\ InitCDC
    /\ _rx_data = Unwritten(CDC_RX_BUFFER_SIZE)
    /\ _tx_data = Unwritten(CDC_TX_BUFFER_SIZE)

\* __get_IPSR() != 0
InISR(c) == c = "isr"

\* no interrupt handler is running
NoHandler == e_pc = "idle" /\ pc["isr"] = "idle"

\* the transmit buffer holds no more than its capacity; a run is followed up
\* to the first state in which it does
InRange == _tx_count <= CDC_TX_BUFFER_SIZE

\* context c is the one the processor executes
Running(c) == InRange /\ IF InISR(c) THEN e_pc = "idle" ELSE NoHandler

Goto(c, p, l) == /\ pc' = [pc EXCEPT ![c] = p]
                 /\ loc' = [loc EXCEPT ![c] = l]

\* ---------------------------------------------------------- device stack
\* stm32l4_usbd_cdc_done
stm32l4_usbd_cdc_done == ~dev_busy

\* stm32l4_usbd_cdc_transmit(&_tx_data[off], len)
stm32l4_usbd_cdc_transmit(off, len) ==
    /\ dev_busy' = TRUE
    /\ dev_len' = len
    /\ dev_off' = off
    /\ h_diff' = h_diff - len

\* the results stm32l4_usbd_cdc_receive may give when offered capacity cap
ReceiveSizes(cap) ==
    IF dev_rx = 0 THEN {0} ELSE 1 .. Min(cap, dev_rx)

\* ----------------------------------------------------------------- write
\* WriteRejected without the test of the RTS bit
WriteRejectedNoRts(state, lineState) == state < USBD_CDC_STATE_READY

\* line 188: the device is not ready, or the RTS bit of the line state is clear
WriteRejected(state, lineState) ==
    state < USBD_CDC_STATE_READY \/ ~TestBit(lineState, 2)

\* lines 193-199: size as clamped to the free space of the transmit buffer
ClampSize(size, tx_count) ==
    IF size > USub(CDC_TX_BUFFER_SIZE, tx_count)
    THEN USub(CDC_TX_BUFFER_SIZE, tx_count) ELSE size

\* WriteSpan without the clamp to the free space
WriteSpanNoFree(tx_count, tx_write, left) ==
    Min(USub(CDC_TX_BUFFER_SIZE, tx_write), left)

\* lines 238-244: the bytes one iteration of the loop copies
WriteSpan(tx_count, tx_write, left) ==
    Min(Min(tx_count, USub(CDC_TX_BUFFER_SIZE, tx_write)), left)

\* TxChunk without the clamp to the end of the buffer
TxChunkNoEnd(tx_size, tx_read) == Min(tx_size, CDC_TX_PACKET_SIZE)

\* lines 216-222, 260-266, 366-372: the length of the chunk handed to transmit
TxChunk(tx_size, tx_read) ==
    Min(Min(tx_size, USub(CDC_TX_BUFFER_SIZE, tx_read)), CDC_TX_PACKET_SIZE)

\* write(buffer, size) is called in context c; lines 188-199, up to the clamp
WriteCall(c, size, state, lineState) ==
    /\ pc[c] = "idle" /\ Running(c) /\ NoHandler
    /\ _tx_total + size <= MaxTotal
    /\ LET l == [NoLoc EXCEPT !.op = "write", !.size = size, !.state = state,
                              !.lineState = lineState]
       IN  IF WriteRejected(state, lineState)
           THEN Goto(c, "ret", [l EXCEPT !.ret = 0, !.size = 0])
           ELSE IF ~_blocking \/ InISR(c)
                THEN Goto(c, "w_clamp", l)
                ELSE Goto(c, "w_total", l)
    /\ UNCHANGED <<cdc, dev, e_pc, ev, hist, mem>>

\* lines 194-198
WClamp(c) ==
    /\ pc[c] = "w_clamp" /\ Running(c)
    /\ Goto(c, "w_total",
            [loc[c] EXCEPT !.size = ClampSize(loc[c].size, _tx_count),
                           !.state = 0, !.lineState = 0])
    /\ UNCHANGED <<cdc, dev, e_pc, ev, hist, mem>>

\* lines 201-203
WTotal(c) ==
    /\ pc[c] = "w_total" /\ Running(c)
    /\ _tx_total' = UAdd(_tx_total, loc[c].size)
    /\ Goto(c, "w_loop", [loc[c] EXCEPT !.count = 0, !.state = 0,
                                         !.lineState = 0])
    /\ UNCHANGED <<_blocking, rxv, _tx_read, _tx_write, _tx_size, _tx_count,
                   _transmitCallback, _receiveCallback, dev, e_pc, ev, hist, mem>>

\* lines 205-209
WLoop(c) ==
    /\ pc[c] = "w_loop" /\ Running(c)
    /\ IF loc[c].count < loc[c].size
       THEN LET tx_count == USub(CDC_TX_BUFFER_SIZE, _tx_count)
            IN  IF tx_count = 0
                THEN Goto(c, "w_full", [loc[c] EXCEPT !.tx_count = 0])
                ELSE Goto(c, "w_copy", [loc[c] EXCEPT !.tx_count = tx_count])
       ELSE Goto(c, "w_kick", loc[c])
    /\ UNCHANGED <<cdc, dev, e_pc, ev, hist, mem>>

\* lines 212-224
WFull(c) ==
    /\ pc[c] = "w_full" /\ Running(c)
    /\ IF stm32l4_usbd_cdc_done
       THEN LET tx_size == TxChunk(_tx_count, _tx_read)
            IN  /\ _tx_size' = tx_size
                /\ Goto(c, "w_full_tx", [loc[c] EXCEPT !.tx_size = tx_size,
                                                       !.tx_read = _tx_read])
       ELSE /\ UNCHANGED _tx_size
            /\ Goto(c, "w_spin", loc[c])
    /\ UNCHANGED <<_blocking, rxv, _tx_read, _tx_write, _tx_count, _tx_total,
                   _transmitCallback, _receiveCallback, dev, e_pc, ev, hist, mem>>

\* line 226
WFullTx(c) ==
    /\ pc[c] = "w_full_tx" /\ Running(c)
    /\ stm32l4_usbd_cdc_transmit(loc[c].tx_read, loc[c].tx_size)
    /\ Goto(c, "w_spin", [loc[c] EXCEPT !.tx_size = 0, !.tx_read = 0])
    /\ UNCHANGED <<cdc, dev_rx, e_pc, ev, h_since_tcb, mem>>

\* line 229: the call waits while the buffer is full
Waiting(c) == pc[c] = "w_spin" /\ CDC_TX_BUFFER_SIZE = _tx_count

\* lines 229-231: one test of the loop condition; the body yields
WSpin(c) ==
    /\ pc[c] = "w_spin" /\ Running(c)
    /\ IF CDC_TX_BUFFER_SIZE = _tx_count
       THEN Goto(c, "w_spin", loc[c])
       ELSE Goto(c, "w_spun", loc[c])
    /\ UNCHANGED <<cdc, dev, e_pc, ev, hist, mem>>

\* line 233
WSpun(c) ==
    /\ pc[c] = "w_spun" /\ Running(c)
    /\ Goto(c, "w_copy",
            [loc[c] EXCEPT !.tx_count = USub(CDC_TX_BUFFER_SIZE, _tx_count)])
    /\ UNCHANGED <<cdc, dev, e_pc, ev, hist, mem>>

\* lines 236-247
WCopy(c) ==
    /\ pc[c] = "w_copy" /\ Running(c)
    /\ LET tx_count == WriteSpan(loc[c].tx_count, _tx_write,
                                 loc[c].size - loc[c].count)
       IN  /\ Goto(c, "w_setwrite",
                [loc[c] EXCEPT !.tx_write = _tx_write, !.tx_count = tx_count,
                               !.count = loc[c].count + tx_count])
           /\ _tx_data' = Store(_tx_data, CDC_TX_BUFFER_SIZE, _tx_write,
                                tx_count, h_tx.acc)
           /\ h_tx' = [h_tx EXCEPT !.acc = After(_tx_data, CDC_TX_BUFFER_SIZE,
                                                 h_tx.acc, tx_count)]
    /\ UNCHANGED <<cdc, dev, e_pc, ev, hist, rxm>>

\* line 249
WSetWrite(c) ==
    /\ pc[c] = "w_setwrite" /\ Running(c)
    /\ _tx_write' = Mask(loc[c].tx_write + loc[c].tx_count, CDC_TX_BUFFER_SIZE)
    /\ Goto(c, "w_add", [loc[c] EXCEPT !.tx_write = 0])
    /\ UNCHANGED <<_blocking, rxv, _tx_read, _tx_size, _tx_count, _tx_total,
                   _transmitCallback, _receiveCallback, dev, e_pc, ev, hist, mem>>

\* WAdd adding the bytes the call has copied so far instead of the bytes of
\* this iteration
WAddCount(c) ==
    /\ pc[c] = "w_add" /\ Running(c)
    /\ _tx_count' = UAdd(_tx_count, loc[c].count)
    /\ h_diff' = h_diff + loc[c].tx_count
    /\ h_since_tcb' = (h_since_tcb \/ loc[c].tx_count > 0)
    /\ Goto(c, "w_loop", [loc[c] EXCEPT !.tx_count = 0])
    /\ UNCHANGED <<_blocking, rxv, _tx_read, _tx_write, _tx_size, _tx_total,
                   _transmitCallback, _receiveCallback, dev, e_pc, ev, mem>>

\* line 251
WAdd(c) ==
    /\ pc[c] = "w_add" /\ Running(c)
    /\ _tx_count' = UAdd(_tx_count, loc[c].tx_count)
    /\ h_diff' = h_diff + loc[c].tx_count
    /\ h_since_tcb' = (h_since_tcb \/ loc[c].tx_count > 0)
    /\ Goto(c, "w_loop", [loc[c] EXCEPT !.tx_count = 0])
    /\ UNCHANGED <<_blocking, rxv, _tx_read, _tx_write, _tx_size, _tx_total,
                   _transmitCallback, _receiveCallback, dev, e_pc, ev, mem>>

\* WKick without the test of stm32l4_usbd_cdc_done
WKickNoDone(c) ==
    /\ pc[c] = "w_kick" /\ Running(c)
    /\ IF ~InISR(c) /\ _tx_count # 0
       THEN LET tx_size == TxChunk(_tx_count, _tx_read)
            IN  /\ _tx_size' = tx_size
                /\ Goto(c, "w_kick_tx", [loc[c] EXCEPT !.tx_size = tx_size,
                                                       !.tx_read = _tx_read])
       ELSE /\ UNCHANGED _tx_size
            /\ Goto(c, "ret", [loc[c] EXCEPT !.ret = loc[c].count])
    /\ UNCHANGED <<_blocking, rxv, _tx_read, _tx_write, _tx_count, _tx_total,
                   _transmitCallback, _receiveCallback, dev, e_pc, ev, hist, mem>>

\* lines 254-268, and the return of line 275 when no chunk is started
WKick(c) ==
    /\ pc[c] = "w_kick" /\ Running(c)
    /\ IF ~InISR(c) /\ stm32l4_usbd_cdc_done /\ _tx_count # 0
       THEN LET tx_size == TxChunk(_tx_count, _tx_read)
            IN  /\ _tx_size' = tx_size
                /\ Goto(c, "w_kick_tx", [loc[c] EXCEPT !.tx_size = tx_size,
                                                       !.tx_read = _tx_read])
       ELSE /\ UNCHANGED _tx_size
            /\ Goto(c, "ret", [loc[c] EXCEPT !.ret = loc[c].count])
    /\ UNCHANGED <<_blocking, rxv, _tx_read, _tx_write, _tx_count, _tx_total,
                   _transmitCallback, _receiveCallback, dev, e_pc, ev, hist, mem>>

\* lines 270-275
WKickTx(c) ==
    /\ pc[c] = "w_kick_tx" /\ Running(c)
    /\ stm32l4_usbd_cdc_transmit(loc[c].tx_read, loc[c].tx_size)
    /\ Goto(c, "ret", [loc[c] EXCEPT !.tx_size = 0, !.tx_read = 0,
                                     !.ret = loc[c].count])
    /\ UNCHANGED <<cdc, dev_rx, e_pc, ev, h_since_tcb, mem>>

\* the call has returned to its caller
Return(c) ==
    /\ pc[c] = "ret" /\ Running(c)
    /\ Goto(c, "idle", NoLoc)
    /\ UNCHANGED <<cdc, dev, e_pc, ev, hist, mem>>

\* lines 205-252 in an interrupt handler, which nothing preempts: the loop
\* from count bytes queued, with the write cursor at tx_write and _tx_count at
\* tx_count; stuck when it reaches the wait of line 229
RECURSIVE IsrLoop(_, _, _, _)
IsrLoop(count, size, tx_write, tx_count) ==
    IF count < size
    THEN LET free == USub(CDC_TX_BUFFER_SIZE, tx_count)
             n == WriteSpan(free, tx_write, size - count)
         IN  IF free = 0
             THEN [stuck |-> TRUE, count |-> count,
                   tx_write |-> tx_write, tx_count |-> tx_count]
             ELSE IsrLoop(count + n, size,
                          Mask(tx_write + n, CDC_TX_BUFFER_SIZE),
                          UAdd(tx_count, n))
    ELSE [stuck |-> FALSE, count |-> count,
          tx_write |-> tx_write, tx_count |-> tx_count]

\* write(buffer, size) called from an interrupt handler (lines 183-276): the
\* whole call, which the foreground does not observe in part
IsrWriteCall(size, state, lineState) ==
    /\ pc["isr"] = "idle" /\ NoHandler /\ InRange
    /\ _tx_total + size <= MaxTotal
    /\ LET l == [NoLoc EXCEPT !.op = "write", !.state = state,
                              !.lineState = lineState]
           sz == ClampSize(size, _tx_count)
           r == IsrLoop(0, sz, _tx_write, _tx_count)
       IN  IF WriteRejected(state, lineState)
           THEN /\ Goto("isr", "ret", [l EXCEPT !.ret = 0])
                /\ UNCHANGED <<txv, hist, txm>>
           ELSE /\ _tx_total' = UAdd(_tx_total, sz)
                /\ _tx_data' = Store(_tx_data, CDC_TX_BUFFER_SIZE, _tx_write,
                                     r.count, h_tx.acc)
                /\ h_tx' = [h_tx EXCEPT
                               !.acc = After(_tx_data, CDC_TX_BUFFER_SIZE,
                                             h_tx.acc, r.count)]
                /\ _tx_write' = r.tx_write
                /\ _tx_count' = r.tx_count
                /\ h_diff' = h_diff + r.count
                /\ h_since_tcb' = (h_since_tcb \/ r.count > 0)
                /\ Goto("isr", IF r.stuck THEN "w_spin" ELSE "ret",
                        [l EXCEPT !.size = sz, !.count = r.count,
                                  !.ret = r.count])
                /\ UNCHANGED <<_tx_read, _tx_size>>
    /\ UNCHANGED <<_blocking, rxv, _transmitCallback, _receiveCallback,
                   dev, e_pc, ev, rxm>>

WriteStep(c) ==
    \/ WClamp(c) \/ WTotal(c) \/ WLoop(c) \/ WFull(c) \/ WFullTx(c)
    \/ WSpin(c) \/ WSpun(c) \/ WCopy(c) \/ WSetWrite(c) \/ WAdd(c)
    \/ WKick(c) \/ WKickTx(c) \/ Return(c)

\* ----------------------------------------------------------------- flush
\* flush() is called in context c; line 167
FlushCall(c) ==
    /\ pc[c] = "idle" /\ Running(c) /\ NoHandler
    /\ IF InISR(c)
       THEN Goto(c, "ret", [NoLoc EXCEPT !.op = "flush"])
       ELSE Goto(c, "f_count", [NoLoc EXCEPT !.op = "flush"])
    /\ UNCHANGED <<cdc, dev, e_pc, ev, hist, mem>>

\* lines 168-170: one test of the loop condition; the body yields
FCount(c) ==
    /\ pc[c] = "f_count" /\ Running(c)
    /\ IF _tx_count # 0
       THEN Goto(c, "f_count", loc[c])
       ELSE Goto(c, "f_done", loc[c])
    /\ UNCHANGED <<cdc, dev, e_pc, ev, hist, mem>>

\* lines 172-174: one test of the loop condition; the body yields
FDone(c) ==
    /\ pc[c] = "f_done" /\ Running(c)
    /\ IF ~stm32l4_usbd_cdc_done
       THEN Goto(c, "f_done", loc[c])
       ELSE Goto(c, "ret", loc[c])
    /\ UNCHANGED <<cdc, dev, e_pc, ev, hist, mem>>

FlushStep(c) == FCount(c) \/ FDone(c)

\* done without the test of _tx_count
doneNoCount == stm32l4_usbd_cdc_done

\* CDC::done (lines 288-299)
done == _tx_count = 0 /\ stm32l4_usbd_cdc_done

\* ------------------------------------------------------------------ read
\* CDC::available
available == _rx_count

\* ReadSpan without the clamp to the end of the buffer
ReadSpanNoEnd(rx_count, rx_read) == rx_count

\* lines 150-152: the bytes one iteration of read(buffer, size) copies
ReadSpan(rx_count, rx_read) ==
    IF rx_count > USub(UART_RX_BUFFER_SIZE, rx_read)
    THEN USub(UART_RX_BUFFER_SIZE, rx_read) ELSE rx_count

\* read(): lines 118-126
ReadCall(c) ==
    /\ pc[c] = "idle" /\ Running(c) /\ NoHandler
    /\ LET l == [NoLoc EXCEPT !.op = "read"]
       IN  IF _rx_count = 0
           THEN /\ Goto(c, "ret", [l EXCEPT !.ret = -1])
                /\ UNCHANGED _rx_read
           ELSE /\ _rx_read' = Mask(_rx_read + 1, CDC_RX_BUFFER_SIZE)
                /\ Goto(c, "r_sub",
                        [l EXCEPT !.rx_count = 1,
                                  !.got = Load(_rx_data, CDC_RX_BUFFER_SIZE,
                                               _rx_read, 1)])
    /\ UNCHANGED <<_blocking, _rx_write, _rx_count, txv,
                   _transmitCallback, _receiveCallback, dev, e_pc, ev, hist, mem>>

\* read(): lines 128-130
RSub(c) ==
    /\ pc[c] = "r_sub" /\ Running(c)
    /\ _rx_count' = USub(_rx_count, 1)
    /\ h_rx' = [h_rx EXCEPT !.out = After(_rx_data, CDC_RX_BUFFER_SIZE,
                                          h_rx.out, 1)]
    /\ Goto(c, "ret", [loc[c] EXCEPT !.ret = 0, !.count = 1, !.rx_count = 0,
                                     !.got = <<>>])
    /\ UNCHANGED <<_blocking, _rx_read, _rx_write, txv, _rx_data, txm,
                   _transmitCallback, _receiveCallback, dev, e_pc, ev, hist>>

\* read(buffer, size): lines 138
ReadBufCall(c, size) ==
    /\ pc[c] = "idle" /\ Running(c) /\ NoHandler
    /\ Goto(c, "rb_loop", [NoLoc EXCEPT !.op = "readbuf", !.size = size])
    /\ UNCHANGED <<cdc, dev, e_pc, ev, hist, mem>>

\* read(buffer, size): lines 140-157, and the return of line 162
RbLoop(c) ==
    /\ pc[c] = "rb_loop" /\ Running(c)
    /\ IF loc[c].count < loc[c].size /\ _rx_count # 0
       THEN LET rx_count == ReadSpan(_rx_count, _rx_read)
            IN  /\ _rx_read' = Mask(_rx_read + rx_count, CDC_RX_BUFFER_SIZE)
                /\ Goto(c, "rb_sub",
                        [loc[c] EXCEPT !.rx_count = rx_count,
                                       !.count = loc[c].count + rx_count,
                                       !.got = Load(_rx_data,
                                                    CDC_RX_BUFFER_SIZE,
                                                    _rx_read, rx_count)])
       ELSE /\ UNCHANGED _rx_read
            /\ Goto(c, "ret", [loc[c] EXCEPT !.ret = loc[c].count])
    /\ UNCHANGED <<_blocking, _rx_write, _rx_count, txv,
                   _transmitCallback, _receiveCallback, dev, e_pc, ev, hist, mem>>

\* read(buffer, size): line 159
RbSub(c) ==
    /\ pc[c] = "rb_sub" /\ Running(c)
    /\ _rx_count' = USub(_rx_count, loc[c].rx_count)
    /\ h_rx' = [h_rx EXCEPT !.out = After(_rx_data, CDC_RX_BUFFER_SIZE,
                                          h_rx.out, loc[c].rx_count)]
    /\ Goto(c, "rb_loop", [loc[c] EXCEPT !.rx_count = 0, !.got = <<>>])
    /\ UNCHANGED <<_blocking, _rx_read, _rx_write, txv, _rx_data, txm,
                   _transmitCallback, _receiveCallback, dev, e_pc, ev, hist>>

ReadStep(c) == RSub(c) \/ RbLoop(c) \/ RbSub(c)

\* --------------------------------------------------------- configuration
\* CDC::blockOnOverrun
blockOnOverrun(block) ==
    /\ pc["fg"] = "idle" /\ NoHandler
    /\ _blocking' = block
    /\ UNCHANGED <<rxv, txv, _transmitCallback, _receiveCallback,
                   dev, pc, loc, e_pc, ev, hist, mem>>

\* CDC::onTransmit
onTransmit(callback) ==
    /\ pc["fg"] = "idle" /\ NoHandler
    /\ _transmitCallback' = callback
    /\ UNCHANGED <<_blocking, rxv, txv, _receiveCallback,
                   dev, pc, loc, e_pc, ev, hist, mem>>

\* CDC::onReceive
onReceive(callback) ==
    /\ pc["fg"] = "idle" /\ NoHandler
    /\ _receiveCallback' = callback
    /\ UNCHANGED <<_blocking, rxv, txv, _transmitCallback,
                   dev, pc, loc, e_pc, ev, hist, mem>>

\* --------------------------------------------------------- EventCallback
\* RxSpan without the clamp to the end of the buffer
RxSpanNoWrap(rx_count, rx_write) == rx_count

\* lines 332-334: the capacity offered to stm32l4_usbd_cdc_receive
RxSpan(rx_count, rx_write) ==
    IF rx_count > USub(CDC_RX_BUFFER_SIZE, rx_write)
    THEN USub(CDC_RX_BUFFER_SIZE, rx_write) ELSE rx_count

\* a counter of the observation that stops at 2 ("more than once")
Upto2(n) == IF n < 2 THEN n + 1 ELSE 2

\* line 352: where EventCallback continues after the receive part
AfterReceive ==
    IF TestBit(ev'.events, USBD_CDC_EVENT_TRANSMIT)
    THEN e_pc' = "e_tx"
    ELSE e_pc' = "idle"

\* lines 318-321: the test of the while loop and the head of its body, with
\* e the locals of the callback
RxWhile(e) ==
    IF _rx_count # CDC_RX_BUFFER_SIZE
    THEN /\ e_pc' = "e_rx_do"
         /\ ev' = [e EXCEPT !.empty = (_rx_count = 0), !.count = 0]
    ELSE /\ ev' = IF TestBit(e.events, USBD_CDC_EVENT_TRANSMIT)
                  THEN [NoEv EXCEPT !.events = e.events] ELSE NoEv
         /\ AfterReceive

\* the device stack calls EventCallback(events); a TRANSMIT event reports the
\* completion of the chunk in flight (lines 311-321)
EventStart(events) ==
    /\ NoHandler /\ InRange
    /\ TestBit(events, USBD_CDC_EVENT_TRANSMIT) => dev_busy
    /\ IF TestBit(events, USBD_CDC_EVENT_TRANSMIT)
       THEN /\ dev_busy' = FALSE /\ dev_len' = 0 /\ dev_off' = 0
            /\ h_tx' = [h_tx EXCEPT
                           !.sent = After(_tx_data, CDC_TX_BUFFER_SIZE,
                                          h_tx.sent, dev_len)]
       ELSE UNCHANGED <<devtx, h_tx>>
    /\ LET e == [NoEv EXCEPT !.events = events, !.empty0 = (_rx_count = 0)]
       IN  IF TestBit(events, USBD_CDC_EVENT_RECEIVE)
           THEN RxWhile(e)
           ELSE e_pc' = "e_tx" /\ ev' = e
    /\ UNCHANGED <<cdc, dev_rx, pc, loc, hist, rxm, _tx_data>>

\* lines 323-344: one iteration of the do loop
ERxDo ==
    /\ e_pc = "e_rx_do"
    /\ LET rx_count == USub(CDC_RX_BUFFER_SIZE, _rx_count)
           cap == RxSpan(rx_count, _rx_write)
       IN  IF rx_count = 0
           THEN /\ e_pc' = "e_rx_cb"
                /\ ev' = [ev EXCEPT !.called = FALSE, !.cap = 0, !.room = 0]
                /\ UNCHANGED <<_rx_write, _rx_count, dev_rx, rxm>>
           ELSE \E rx_size \in ReceiveSizes(cap) :
                /\ dev_rx' = dev_rx - rx_size
                /\ _rx_data' = Store(_rx_data, CDC_RX_BUFFER_SIZE, _rx_write,
                                     rx_size, h_rx.in)
                /\ h_rx' = [h_rx EXCEPT
                               !.in = After(_rx_data, CDC_RX_BUFFER_SIZE,
                                            h_rx.in, rx_size)]
                /\ _rx_write' = Mask(_rx_write + rx_size, CDC_RX_BUFFER_SIZE)
                /\ _rx_count' = UAdd(_rx_count, rx_size)
                /\ ev' = [ev EXCEPT !.rx_size = rx_size,
                                    !.count = ev.count + rx_size,
                                    !.added = ev.added + rx_size,
                                    !.called = TRUE, !.cap = cap,
                                    !.room = Min(CDC_RX_BUFFER_SIZE - _rx_count,
                                                 CDC_RX_BUFFER_SIZE - _rx_write)]
                /\ e_pc' = IF rx_size # 0 THEN "e_rx_do" ELSE "e_rx_cb"
    /\ UNCHANGED <<_blocking, _rx_read, txv, _transmitCallback,
                   _receiveCallback, devtx, pc, loc, hist, txm>>

\* lines 346-349, and the next test of the while loop when the receive
\* callback is not invoked
ERxCb ==
    /\ e_pc = "e_rx_cb"
    /\ IF ev.empty /\ _receiveCallback
       THEN /\ e_pc' = "e_rcb"
            /\ ev' = [ev EXCEPT !.rcb_calls = Upto2(ev.rcb_calls),
                                !.rcb_arg = ev.count, !.called = FALSE,
                                !.cap = 0, !.room = 0, !.rx_size = 0]
       ELSE RxWhile([ev EXCEPT !.called = FALSE, !.cap = 0, !.room = 0,
                               !.rx_size = 0])
    /\ UNCHANGED <<cdc, dev, pc, loc, hist, mem>>

\* the receive callback returns (line 349), and the next test of the loop
ERcb ==
    /\ e_pc = "e_rcb"
    /\ RxWhile([ev EXCEPT !.rcb_arg = 0])
    /\ UNCHANGED <<cdc, dev, pc, loc, hist, mem>>

\* lines 352-377: the completed chunk leaves the buffer and the next one, if
\* any byte is queued, is handed to the device stack
ETx ==
    /\ e_pc = "e_tx"
    /\ LET tx_read == Mask(_tx_read + _tx_size, CDC_TX_BUFFER_SIZE)
           tx_count == USub(_tx_count, _tx_size)
           tx_size == TxChunk(tx_count, tx_read)
       IN  /\ _tx_read' = tx_read
           /\ _tx_count' = tx_count
           /\ _tx_total' = USub(_tx_total, _tx_size)
           /\ ev' = [ev EXCEPT !.tx_size = _tx_size]
           /\ IF tx_count # 0
              THEN /\ _tx_size' = tx_size
                   /\ stm32l4_usbd_cdc_transmit(tx_read, tx_size)
              ELSE /\ _tx_size' = 0
                   /\ UNCHANGED <<devtx, h_diff>>
    /\ e_pc' = "e_tx_cb"
    /\ UNCHANGED <<_blocking, rxv, _tx_write, _transmitCallback,
                   _receiveCallback, dev_rx, pc, loc, h_since_tcb, mem>>

\* ETxCb testing the occupancy of the buffer instead of the outstanding total
ETxCbOnCount ==
    /\ e_pc = "e_tx_cb"
    /\ IF _tx_count = 0 /\ _transmitCallback
       THEN e_pc' = "e_tcb" /\ ev' = ev
       ELSE e_pc' = "idle" /\ ev' = NoEv
    /\ UNCHANGED <<cdc, dev, pc, loc, hist, mem>>

\* lines 379-381
ETxCb ==
    /\ e_pc = "e_tx_cb"
    /\ IF _tx_total = 0 /\ _transmitCallback
       THEN e_pc' = "e_tcb" /\ ev' = ev
       ELSE e_pc' = "idle" /\ ev' = NoEv
    /\ UNCHANGED <<cdc, dev, pc, loc, hist, mem>>

\* the transmit callback returns (line 382)
ETcb ==
    /\ e_pc = "e_tcb"
    /\ e_pc' = "idle" /\ ev' = NoEv
    /\ h_since_tcb' = FALSE
    /\ UNCHANGED <<cdc, dev, pc, loc, h_diff, mem>>

\* ----------------------------------------------------------- environment
\* the host sends n bytes, which the device stack buffers; no byte arrives
\* while the event callback runs
HostSend(n) ==
    /\ e_pc = "idle"
    /\ dev_rx + n <= MaxDevRx
    /\ dev_rx' = dev_rx + n
    /\ UNCHANGED <<cdc, devtx, pc, loc, e_pc, ev, hist, mem>>

\* --------------------------------------------------------- specifications
States == {USBD_CDC_STATE_INIT, USBD_CDC_STATE_READY}
LineStates == 0 .. 3

\* the calls of the transmit side made in context c, and their steps
Write(c) ==
    \/ \E size \in 0 .. MaxWrite, state \in States, lineState \in LineStates :
           WriteCall(c, size, state, lineState)
    \/ WriteStep(c)

\* the device state and line state a call from an interrupt handler sees:
\* one pair the check of line 188 accepts, and one for each reason to reject
IsrArgs == {<<USBD_CDC_STATE_READY, 3>>, <<USBD_CDC_STATE_READY, 1>>,
            <<USBD_CDC_STATE_INIT, 3>>}

\* write called from an interrupt handler
IsrWrite ==
    \/ \E size \in 0 .. MaxIsrWrite, a \in IsrArgs :
           IsrWriteCall(size, a[1], a[2])
    \/ Return("isr")

\* the calls of the receive side made in context c, and their steps
Read(c) ==
    \/ ReadCall(c)
    \/ \E size \in 0 .. MaxRead : ReadBufCall(c, size)
    \/ ReadStep(c)
    \/ Return(c)

Host == \E n \in 1 .. MaxDevRx : HostSend(n)

\* EventCallback(USBD_CDC_EVENT_RECEIVE)
ReceiveEvent ==
    \/ EventStart(USBD_CDC_EVENT_RECEIVE)
    \/ ERxDo \/ ERxCb

\* EventCallback(USBD_CDC_EVENT_TRANSMIT)
TransmitEvent ==
    \/ EventStart(USBD_CDC_EVENT_TRANSMIT)
    \/ ETx \/ ETxCb

\* EventCallback(USBD_CDC_EVENT_RECEIVE | USBD_CDC_EVENT_TRANSMIT)
BothEvents == EventStart(USBD_CDC_EVENT_RECEIVE + USBD_CDC_EVENT_TRANSMIT)

\* One foreground context calling write, read and read(buffer, size),
\* preempted by the event callback; no callback is registered.
Next ==
    \/ Write("fg") \/ Read("fg")
    \/ \E b \in BOOLEAN : blockOnOverrun(b)
    \/ ReceiveEvent \/ TransmitEvent \/ BothEvents
    \/ Host
Spec == Init /\ [][Next]_vars

\* The transmit side: the foreground writes, TRANSMIT events complete the
\* chunks.
NextTx ==
    \/ Write("fg")
    \/ \E b \in BOOLEAN : blockOnOverrun(b)
    \/ \E b \in BOOLEAN : onTransmit(b)
    \/ TransmitEvent \/ ETcb
SpecTx == Init /\ [][NextTx]_vars

\* The transmit side, with write also called from an interrupt handler.
NextTxIsr ==
    \/ Write("fg") \/ IsrWrite
    \/ \E b \in BOOLEAN : blockOnOverrun(b)
    \/ TransmitEvent
SpecTxIsr == Init /\ [][NextTxIsr]_vars

\* The receive side: the host sends, RECEIVE events fill the buffer, the
\* foreground reads.
NextRx ==
    \/ Read("fg")
    \/ \E b \in BOOLEAN : onReceive(b)
    \/ ReceiveEvent \/ ERcb
    \/ Host
SpecRx == Init /\ [][NextRx]_vars

\* The receive side with the scheduling of the processor: a running event
\* callback executes its next statement.
FairRx == SpecRx /\ WF_vars(ERxDo \/ ERxCb \/ ERcb)

\* ---------------------------------------------------------------- claims

\* C2: every invocation of EventCallback returns after finitely many steps,
\* also when the device stack holds fewer bytes than the receive buffer has
\* free.
C2_CallbackReturns == (e_pc # "idle") ~> (e_pc = "idle")

\* C3: read(buffer, size) never moves more than size bytes: the count of the
\* bytes copied to buffer, which is the count it returns, never exceeds size.
C3_ReadAtMostSize ==
    loc["fg"].op = "readbuf" => loc["fg"].count <= loc["fg"].size

\* C8: during one invocation of EventCallback with the RECEIVE event and a
\* receive callback registered, the callback is invoked at most once, with the
\* bytes added by the invocation, if the buffer was empty on entry, and not at
\* all otherwise.
C8_OncePerInvocation ==
    (e_pc # "idle" /\ TestBit(ev.events, USBD_CDC_EVENT_RECEIVE)) =>
        IF ev.empty0
        THEN /\ ev.rcb_calls <= 1
             /\ e_pc = "e_rcb" => ev.rcb_arg = ev.added
        ELSE ev.rcb_calls = 0

\* C10: EventCallback offers stm32l4_usbd_cdc_receive a capacity of at least
\* one byte and at most the contiguous free space at _rx_write; when a round
\* of receive calls ends, available() is the lesser of the bytes outstanding
\* (buffered here or in the device stack) and the capacity, so that bytes
\* stay in the device stack only when the buffer is full.
C10_Backpressure ==
    /\ ev.called => (1 <= ev.cap /\ ev.cap <= ev.room)
    /\ e_pc = "e_rx_cb" =>
           available = Min(_rx_count + dev_rx, CDC_RX_BUFFER_SIZE)

\* C10 witness: after a read has moved the read cursor, a receive call has
\* filled the buffer again and bytes are left in the device stack.
C10_Saturated ==
    /\ e_pc = "e_rx_do" /\ ev.called /\ ev.rx_size > 0
    /\ _rx_count = CDC_RX_BUFFER_SIZE /\ dev_rx > 0 /\ _rx_read # 0

\* The foreground writing, with RECEIVE and TRANSMIT events and the
\* scheduling of the processor: the foreground and a running event callback
\* execute their next statement, and the device stack signals the completion
\* of the chunk it was handed.
NextW ==
    \/ Write("fg")
    \/ \E b \in BOOLEAN : blockOnOverrun(b)
    \/ ReceiveEvent \/ TransmitEvent \/ BothEvents
FairW ==
    /\ Init /\ [][NextW]_vars
    /\ WF_vars(WriteStep("fg"))
    /\ WF_vars(ERxDo \/ ERxCb \/ ETx \/ ETxCb)
    /\ WF_vars(EventStart(USBD_CDC_EVENT_TRANSMIT))

\* C1: the occupancy counters stay within the capacities (an underflow of the
\* unsigned counters would show as a value above the capacity).
C1_CountsInRange ==
    /\ 0 <= _rx_count /\ _rx_count <= CDC_RX_BUFFER_SIZE
    /\ 0 <= _tx_count /\ _tx_count <= CDC_TX_BUFFER_SIZE

\* C1 witness: both buffers are full while the event callback has preempted a
\* call of the foreground.
C1_BothFull ==
    /\ _rx_count = CDC_RX_BUFFER_SIZE /\ _tx_count = CDC_TX_BUFFER_SIZE
    /\ e_pc # "idle" /\ pc["fg"] \notin {"idle", "ret"}

\* the foreground is in no call and no event callback runs
Quiet == pc["fg"] \in {"idle", "ret"} /\ pc["isr"] = "idle" /\ e_pc = "idle"

\* C4: every chunk handed to stm32l4_usbd_cdc_transmit has a length of 1 to
\* CDC_TX_PACKET_SIZE and ends within the buffer; and once write has returned
\* and every completion is processed, the lengths of the chunks handed add up
\* to the bytes write accepted.
C4_Chunks ==
    /\ dev_busy => /\ 1 <= dev_len /\ dev_len <= CDC_TX_PACKET_SIZE
                   /\ dev_off + dev_len <= CDC_TX_BUFFER_SIZE
    /\ (Quiet /\ ~dev_busy) => h_diff = 0

\* C5: a write in interrupt context, or in the foreground with
\* blockOnOverrun(false), never waits for space, and returns the size it
\* clamped to the free space.
C5_NeverWaits ==
    \A c \in Contexts :
        (loc[c].op = "write" /\ (InISR(c) \/ ~_blocking)) =>
            /\ ~Waiting(c)
            /\ pc[c] = "ret" => loc[c].ret = loc[c].size

\* C6: a write called while the device is below READY or the RTS bit is clear
\* returns 0 at once, leaves the transmit state as it is and hands nothing to
\* the device stack, in either context and in either mode.
C6_RejectedWrite ==
    [][\A c \in Contexts :
          (/\ pc[c] = "idle" /\ pc'[c] # "idle" /\ loc'[c].op = "write"
           /\ \/ loc'[c].state < USBD_CDC_STATE_READY
              \/ loc'[c].lineState \in {0, 1})
          => (pc'[c] = "ret" /\ loc'[c].ret = 0 /\ UNCHANGED <<txv, devtx>>)]_vars

\* C6 witness: in non-blocking mode, a write from an interrupt handler on a
\* ready device with RTS clear has returned 0 while bytes are queued.
C6_Rejected ==
    /\ pc["isr"] = "ret" /\ loc["isr"].op = "write" /\ loc["isr"].ret = 0
    /\ loc["isr"].state = USBD_CDC_STATE_READY /\ loc["isr"].lineState = 1
    /\ ~_blocking /\ _tx_count > 0

\* C7: a blocking write in the foreground eventually returns its size.
C7_BlockingWriteReturns ==
    (loc["fg"].op = "write" /\ pc["fg"] # "ret" /\ _blocking)
        ~> (pc["fg"] = "ret" /\ loc["fg"].ret = loc["fg"].size)

\* a write call in the foreground has bytes of its size still to queue
Unqueued ==
    /\ loc["fg"].op = "write" /\ pc["fg"] \notin {"idle", "ret"}
    /\ loc["fg"].count < loc["fg"].size

\* C9 as stated: the transmit callback is invoked with nothing queued, handed
\* or outstanding, after at least one byte accepted since its last
\* invocation, and never while a write call has bytes still unqueued.
C9_AllSentStated ==
    e_pc = "e_tcb" =>
        /\ TestBit(ev.events, USBD_CDC_EVENT_TRANSMIT)
        /\ _tx_total = 0 /\ _tx_count = 0 /\ _tx_size = 0 /\ ~dev_busy
        /\ h_since_tcb
        /\ ~Unqueued

\* C9 as amended: ... and never while a write call that has added its size to
\* _tx_total (line 201) has bytes still unqueued.
C9_AllSent ==
    e_pc = "e_tcb" =>
        /\ TestBit(ev.events, USBD_CDC_EVENT_TRANSMIT)
        /\ _tx_total = 0 /\ _tx_count = 0 /\ _tx_size = 0 /\ ~dev_busy
        /\ h_since_tcb
        /\ pc["fg"] \notin {"w_clamp", "w_total"} => ~Unqueued

\* C9 witness: the transmit callback runs while a write call in the foreground
\* has not yet reached line 201.
C9_FiredAtEntry ==
    e_pc = "e_tcb" /\ pc["fg"] = "w_total" /\ loc["fg"].size > 0

\* ------------------------------------------------- contents of the buffers
\* The transmit side with one producer, the foreground, and the contents of
\* the transmit buffer.
NextTxData ==
    \/ Write("fg")
    \/ \E b \in BOOLEAN : blockOnOverrun(b)
    \/ TransmitEvent
SpecTxData == InitData /\ [][NextTxData]_vars

\* the chunk the device stack holds is in the buffer, and its bytes are the
\* next bytes of the stream write accepted
ChunkInOrder ==
    \A i \in 0 .. dev_len - 1 :
        /\ dev_off + i < CDC_TX_BUFFER_SIZE
        /\ _tx_data[dev_off + i] = (h_tx.sent + i) % Ids(CDC_TX_BUFFER_SIZE)

\* C11: from the call of transmit to the completion of the chunk, the chunk
\* holds the bytes that follow, in the order write accepted them, the bytes of
\* the chunks handed before; and with every chunk completed and nothing
\* queued, every byte accepted was handed.
C11_TransmitInOrder ==
    /\ dev_busy => ChunkInOrder
    /\ (Quiet /\ ~dev_busy /\ _tx_count = 0) => h_tx.sent = h_tx.acc

\* C11 witness: a chunk that does not start at index 0 is in flight, after
\* the write cursor has wrapped, and write has stored bytes behind it.
C11_WrappedChunk ==
    /\ dev_busy /\ dev_len > 0 /\ dev_off > 0
    /\ h_tx.sent >= CDC_TX_BUFFER_SIZE
    /\ _tx_count > dev_len

\* The receive side with the contents of the receive buffer.
NextRxData ==
    \/ Read("fg")
    \/ ReceiveEvent
    \/ Host
SpecRxData == InitData /\ [][NextRxData]_vars

\* C12: the bytes a read takes from the buffer (line 124, line 154) are the
\* bytes that follow, in the order the device stack delivered them through
\* receive, the bytes the reads returned before.
C12_ReadInOrder ==
    pc["fg"] \in {"r_sub", "rb_sub"} =>
        /\ Len(loc["fg"].got) = loc["fg"].rx_count
        /\ \A k \in 1 .. Len(loc["fg"].got) :
               loc["fg"].got[k] = (h_rx.out + k - 1) % Ids(CDC_RX_BUFFER_SIZE)

\* C12 witness: one read(buffer, size) has copied up to the end of the buffer
\* and, in its next iteration, from index 0 on.
C12_ReadWrapped ==
    /\ pc["fg"] = "rb_sub" /\ loc["fg"].rx_count > 0
    /\ loc["fg"].count > loc["fg"].rx_count
    /\ _rx_read = loc["fg"].rx_count

\* ------------------------------------------------------------------ flush
\* flush in the foreground
Flushing == pc["fg"] \in {"f_count", "f_done"}

\* The transmit side with flush: the foreground writes and flushes, an
\* interrupt handler writes between the calls of the foreground and flushes,
\* the device stack signals the completion of every chunk it was handed.  No
\* write is made while the foreground is in flush.
NextFlush ==
    \/ Write("fg")
    \/ \E b \in BOOLEAN : blockOnOverrun(b)
    \/ FlushCall("fg") \/ FlushStep("fg")
    \/ pc["fg"] = "idle" /\ \E size \in 0 .. MaxIsrWrite, a \in IsrArgs :
                                IsrWriteCall(size, a[1], a[2])
    \/ FlushCall("isr") \/ Return("isr")
    \/ TransmitEvent
FairFlush ==
    /\ Init /\ [][NextFlush]_vars
    /\ WF_vars(FlushStep("fg") \/ WriteStep("fg"))
    /\ WF_vars(Return("isr"))
    /\ WF_vars(ETx \/ ETxCb)
    /\ WF_vars(EventStart(USBD_CDC_EVENT_TRANSMIT))

\* C13: a flush called from the foreground eventually returns, with the
\* transmit buffer empty and the device stack done.
C13_FlushReturns ==
    Flushing ~> (/\ pc["fg"] = "ret" /\ loc["fg"].op = "flush"
                 /\ _tx_count = 0 /\ stm32l4_usbd_cdc_done)

\* ------------------------------------------------------------------- done
\* no call of write is in progress in any context
NoWrite == \A c \in Contexts : pc[c] = "idle" \/ loc[c].op # "write"

\* Both sides with flush: the foreground writes, reads and flushes, an
\* interrupt handler writes and flushes between the calls of the foreground,
\* the device stack signals RECEIVE and TRANSMIT events, and the host sends
\* while no write is in progress.
NextDone ==
    \/ Write("fg")
    \/ \E b \in BOOLEAN : blockOnOverrun(b)
    \/ pc["fg"] = "idle" /\ \E size \in 0 .. MaxIsrWrite, a \in IsrArgs :
                                IsrWriteCall(size, a[1], a[2])
    \/ pc["fg"] = "idle" /\ FlushCall("isr")
    \/ Return("isr")
    \/ Read("fg")
    \/ FlushCall("fg") \/ FlushStep("fg")
    \/ ReceiveEvent \/ TransmitEvent
    \/ NoWrite /\ Host
SpecDone == Init /\ [][NextDone]_vars

\* the step is a call of write in some context
WriteIssued ==
    \E c \in Contexts :
        pc[c] = "idle" /\ pc'[c] # "idle" /\ loc'[c].op = "write"

\* C14 as stated: from a state in which done() is true, every step in which
\* no write is issued leaves done() true.
C14_DoneStableStated == [][(done /\ ~WriteIssued) => done']_vars

\* C14: from a state in which done() is true and no call of write is in
\* progress, every step that is not a call of write (a step of read, of
\* flush, of the event callback, or the host sending) leaves done() true.
C14_DoneStable == [][(done /\ NoWrite /\ NoWrite') => done']_vars

\* C14 witness: bytes were written and sent, done() is true, and with no
\* write in progress a flush has returned while a RECEIVE event was handled
\* before.
C14_DoneAfterFlush ==
    /\ done /\ NoWrite /\ _tx_write # 0 /\ _rx_count > 0
    /\ pc["fg"] = "ret" /\ loc["fg"].op = "flush"

\* ------------------------------------------------------- pending chunks
\* a chunk is with the device stack, or its TRANSMIT event is being handled
TransmitPending == dev_busy \/ e_pc \in {"e_tx", "e_tx_cb"}

\* C15: when a call of write that accepted at least one byte returns, in the
\* foreground or in an interrupt handler, the transmit buffer is empty or a
\* transmission is pending.
C15_PendingAfterWrite ==
    \A c \in Contexts :
        (pc[c] = "ret" /\ loc[c].op = "write" /\ loc[c].ret > 0) =>
            (_tx_count = 0 \/ TransmitPending)

\* the step is the foreground assigning _tx_size (lines 224, 268)
FgSetsSize ==
    /\ pc["fg"] \in {"w_full", "w_kick"}
    /\ pc'["fg"] \in {"w_full_tx", "w_kick_tx"}

\* the step is the foreground calling transmit (lines 226, 270)
FgTransmits ==
    pc["fg"] \in {"w_full_tx", "w_kick_tx"} /\ pc'["fg"] # pc["fg"]

\* the step is EventCallback calling transmit (line 374)
EvTransmits == e_pc = "e_tx" /\ e_pc' = "e_tx_cb" /\ _tx_count' # 0

\* C16: at most one chunk is outstanding.  transmit is called only while the
\* device stack holds no chunk; the foreground assigns _tx_size only where
\* _tx_size is 0 and the device stack is done, and hands over the chunk it
\* recorded; EventCallback starts a chunk only with the completed one taken
\* out of the buffer, at the byte that follows it.
C16_OneChunk ==
    [][/\ (FgTransmits \/ EvTransmits) => (~dev_busy /\ dev_busy')
       /\ FgSetsSize => (_tx_size = 0 /\ stm32l4_usbd_cdc_done)
       /\ FgTransmits => (e_pc = "idle" /\ dev_len' = _tx_size)
       /\ EvTransmits =>
              /\ _tx_count' = _tx_count - _tx_size
              /\ dev_off' = Mask(_tx_read + _tx_size, CDC_TX_BUFFER_SIZE)
              /\ dev_len' = _tx_size']_vars

\* C16 witness: a write has queued bytes behind an outstanding chunk and has
\* returned without starting another.
C16_QueuedBehindChunk ==
    /\ pc["fg"] = "ret" /\ loc["fg"].op = "write" /\ loc["fg"].ret > 0
    /\ dev_busy /\ _tx_size > 0 /\ _tx_count > _tx_size

\* --------------------------------------------------------- write cursor
\* no call is in progress in the foreground or in an interrupt handler
Returned == \A c \in Contexts : pc[c] \in {"idle", "ret"}

\* C17: with a write from an interrupt handler preempting a foreground write
\* anywhere, _tx_count never exceeds the capacity, and once both calls have
\* returned the distance from the read cursor to the write cursor is the
\* occupancy, modulo the capacity.
C17_CursorsAgree ==
    /\ _tx_count <= CDC_TX_BUFFER_SIZE
    /\ Returned =>
           Mask(USub(_tx_write, _tx_read), CDC_TX_BUFFER_SIZE)
               = Mask(_tx_count, CDC_TX_BUFFER_SIZE)

\* ----------------------------------------------------- outstanding total
\* the bytes a call of write in context c has added to _tx_total (line 201)
\* and not yet to _tx_count (line 250)
Outstanding(c) ==
    IF loc[c].op = "write" /\ pc[c] \notin {"idle", "ret", "w_clamp", "w_total"}
    THEN loc[c].size - loc[c].count
             + (IF pc[c] \in {"w_setwrite", "w_add"} THEN loc[c].tx_count ELSE 0)
    ELSE 0

\* _tx_total is the occupancy and what the calls in progress have yet to add
TotalCovers ==
    /\ _tx_total >= _tx_count
    /\ _tx_total = _tx_count + Outstanding("fg") + Outstanding("isr")
    /\ NoWrite => _tx_total = _tx_count

\* the steps that change the two counters: line 201, line 250, a whole call
\* from an interrupt handler, and the TRANSMIT event; a call that returns
\* has added what it returns
TotalSteps ==
    /\ (_tx_total' # _tx_total \/ _tx_count' # _tx_count) =>
           \/ /\ pc["fg"] = "w_total" /\ pc'["fg"] = "w_loop"
              /\ _tx_total' = _tx_total + loc["fg"].size
              /\ _tx_count' = _tx_count
           \/ /\ pc["fg"] = "w_add" /\ pc'["fg"] = "w_loop"
              /\ _tx_count' = _tx_count + loc["fg"].tx_count
              /\ _tx_total' = _tx_total
           \/ /\ pc["isr"] = "idle" /\ pc'["isr"] = "ret"
              /\ _tx_total' = _tx_total + loc'["isr"].ret
              /\ _tx_count' = _tx_count + loc'["isr"].ret
           \/ /\ e_pc = "e_tx" /\ e_pc' = "e_tx_cb"
              /\ _tx_size <= _tx_count
              /\ _tx_total' = _tx_total - _tx_size
              /\ _tx_count' = _tx_count - _tx_size
    /\ (e_pc = "e_tx" /\ e_pc' = "e_tx_cb") =>
           /\ _tx_total' = _tx_total - _tx_size
           /\ _tx_count' = _tx_count - _tx_size
    /\ \A c \in Contexts :
           (pc[c] # "ret" /\ pc'[c] = "ret" /\ loc'[c].op = "write") =>
               /\ loc'[c].ret = loc'[c].count
               /\ loc'[c].ret \in {0, loc'[c].size}
               /\ pc[c] = "idle" /\ ~InISR(c) =>
                      loc'[c].ret = 0 /\ UNCHANGED <<_tx_total, _tx_count>>

\* C18: _tx_total is never below _tx_count and equals it whenever no call of
\* write is in progress; a call of write adds to both what it returns, and a
\* TRANSMIT event takes from both the length of the completed chunk.
C18_TotalTracksCount == []TotalCovers /\ [][TotalSteps]_vars

\* C18 witness: a write in the foreground has bytes of its size still to add
\* to _tx_count after a TRANSMIT event has taken a chunk from both counters
\* and an interrupt handler has written.
C18_TotalAhead ==
    /\ pc["fg"] = "w_spun" /\ _tx_total > _tx_count /\ _tx_count > 0
    /\ _tx_read # 0 /\ pc["isr"] = "ret" /\ loc["isr"].ret > 0

\* -------------------------------------------------- in-flight descriptor
\* the n slots of the transmit buffer from index at on
Slots(at, n) == {Mask(at + k, CDC_TX_BUFFER_SIZE) : k \in 0 .. n - 1}

\* a chunk is recorded in _tx_size and the handling of its TRANSMIT event has
\* not taken it out of the buffer: it is about to be handed over (lines
\* 224-226, 268-270), with the device stack, or completed and not yet handled
ChunkOutstanding ==
    \/ pc["fg"] \in {"w_full_tx", "w_kick_tx"}
    \/ dev_busy
    \/ /\ e_pc \notin {"idle", "e_tx_cb", "e_tcb"}
       /\ TestBit(ev.events, USBD_CDC_EVENT_TRANSMIT)

\* the descriptor of the chunk lies within the queued bytes and the buffer
DescriptorCovered ==
    /\ _tx_size <= _tx_count
    /\ _tx_read + _tx_size <= CDC_TX_BUFFER_SIZE
    /\ ~ChunkOutstanding => _tx_size = 0

\* a step that copies bytes into the transmit buffer (line 246) stays clear
\* of the slots of the chunk
CopyClearOfChunk ==
    /\ \A c \in Contexts :
           (pc[c] = "w_copy" /\ pc'[c] = "w_setwrite") =>
               Slots(loc'[c].tx_write, loc'[c].tx_count)
                   \cap Slots(_tx_read, _tx_size) = {}
    /\ (pc["isr"] = "idle" /\ pc'["isr"] = "ret" /\ loc'["isr"].op = "write") =>
           Slots(_tx_write, loc'["isr"].ret) \cap Slots(_tx_read, _tx_size) = {}

\* C19: the in-flight descriptor is covered by queued data, _tx_size is 0
\* whenever no chunk is outstanding, and no write copies into the bytes of
\* the chunk being transmitted.
C19_ChunkCovered == []DescriptorCovered /\ [][CopyClearOfChunk]_vars

====
